---- MODULE Spec2Model ----
(***************************************************************************)
(* Model of gte::Matrix<NumRows, NumCols, Real> (GTE/Mathematics/Matrix.h) *)
(* and of the free functions of that header.                               *)
(*                                                                         *)
(* The storage scheme is a build-time switch (GTE_USE_ROW_MAJOR or         *)
(* GTE_USE_COL_MAJOR).  Every matrix-valued variable is therefore a        *)
(* function from the two builds to the matrix that build holds, and every  *)
(* step is carried out in both builds.                                     *)
(*                                                                         *)
(* A matrix is a record [NumRows, NumCols, mStorage]; mStorage is the      *)
(* physical linear sequence of Table::mStorage, indexed from 0 as          *)
(* (&mStorage[0][0])[i].  Real is modelled by the integers, which the      *)
(* floating-point types represent exactly in the modelled range.           *)
(***************************************************************************)
EXTENDS Integers, Sequences, FiniteSets, TLC

VARIABLES M, A, B, last, result

vars == <<M, A, B, last, result>>

(* ---------------------------- bounds ---------------------------------- *)
\* elements of a matrix that is operated on stay in -1..MaxVal
MaxVal == 1
\* constructor inputs are drawn from 0..MaxCtor
MaxCtor == 2
\* an initializer list has at most NumRows*NumCols + MaxExtra values
MaxExtra == 1
\* operands of the comparison and product functions have entries 0..MaxOperand
MaxOperand == 1

(* ----------------------- template parameters -------------------------- *)
NumRows == 2
NumCols == 3
\* Matrix<N, N, Real> of Determinant and Inverse
N == 2
\* Matrix<NumRows, NumCommon, Real> * Matrix<NumCommon, NumCols, Real>
NumCommon == 2

ROW_MAJOR == "GTE_USE_ROW_MAJOR"
COL_MAJOR == "GTE_USE_COL_MAJOR"
Layouts == {ROW_MAJOR, COL_MAJOR}

Val == (0 - 1)..MaxVal
CtorVal == 0..MaxCtor
OperandVal == 0..MaxOperand

(* --------------------------- Table ------------------------------------ *)
\* a write to the slot at offset i from &mStorage[0][0]; an offset outside
\* the table shows up as a slot the table does not have
Store(s, i, v) ==
    IF i \in DOMAIN s
    THEN [s EXCEPT ![i] = v]
    ELSE [j \in (DOMAIN s) \cup {i} |-> IF j = i THEN v ELSE s[j]]

\* Table::Table(): every slot is zero under either scheme
Table(nr, nc) ==
    [NumRows |-> nr, NumCols |-> nc, mStorage |-> [i \in 0..(nr * nc - 1) |-> 0]]

\* offset of mStorage[r][c] (row major) or mStorage[c][r] (column major)
TableOffset(L, m, r, c) ==
    IF L = ROW_MAJOR THEN r * m.NumCols + c ELSE c * m.NumRows + r

\* Table::operator()(r, c) const
TableGet(L, m, r, c) == m.mStorage[TableOffset(L, m, r, c)]

\* Table::operator()(r, c), written through
TableSet(L, m, r, c, v) ==
    [m EXCEPT !.mStorage = Store(@, TableOffset(L, m, r, c), v)]

\* Table::operator[](i) const
TableLinGet(m, i) == m.mStorage[i]

\* Table::operator[](i), written through
TableLinSet(m, i, v) == [m EXCEPT !.mStorage = Store(@, i, v)]

NumElements(m) == m.NumRows * m.NumCols
LinearIndices(m) == 0..(NumElements(m) - 1)
Rows(m) == 0..(m.NumRows - 1)
Cols(m) == 0..(m.NumCols - 1)

(* ---------------------- special matrices ------------------------------ *)
\* Matrix::MakeZero
MakeZero(m) == [m EXCEPT !.mStorage = [i \in LinearIndices(m) |-> 0]]

\* faulty variant: the 1 is written by the row-major linear index
MakeUnit_LinearIndex(L, m, r, c) ==
    LET z == MakeZero(m)
    IN  IF 0 <= r /\ r < m.NumRows /\ 0 <= c /\ c < m.NumCols
        THEN TableLinSet(z, r * m.NumCols + c, 1)
        ELSE z

\* faulty variant: the table is not zeroed first
MakeUnit_KeepsContents(L, m, r, c) ==
    IF 0 <= r /\ r < m.NumRows /\ 0 <= c /\ c < m.NumCols
    THEN TableSet(L, m, r, c, 1)
    ELSE m

\* Matrix::MakeUnit
MakeUnit(L, m, r, c) ==
    LET z == MakeZero(m)
    IN  IF 0 <= r /\ r < m.NumRows /\ 0 <= c /\ c < m.NumCols
        THEN TableSet(L, z, r, c, 1)
        ELSE z

RECURSIVE IdentityLoop(_, _, _, _)
IdentityLoop(L, m, i, numDiagonal) ==
    IF i < numDiagonal
    THEN IdentityLoop(L, TableSet(L, m, i, i, 1), i + 1, numDiagonal)
    ELSE m

\* faulty variant: the diagonal is set only when the matrix is square
MakeIdentity_SquareOnly(L, m) ==
    IF m.NumRows = m.NumCols
    THEN IdentityLoop(L, MakeZero(m), 0, m.NumRows)
    ELSE MakeZero(m)

\* Matrix::MakeIdentity
MakeIdentity(L, m) ==
    LET numDiagonal == IF m.NumRows <= m.NumCols THEN m.NumRows ELSE m.NumCols
    IN  IdentityLoop(L, MakeZero(m), 0, numDiagonal)

(* ------------------------- constructors ------------------------------- *)
\* Matrix::Matrix()
MatrixDefault(nr, nc) == MakeZero(Table(nr, nc))

RECURSIVE FlatLoop(_, _, _, _, _, _)
FlatLoop(L, m, values, r, c, i) ==
    IF r >= m.NumRows THEN m
    ELSE IF c < m.NumCols
         THEN FlatLoop(L, TableSet(L, m, r, c, values[i]), values, r, c + 1, i + 1)
         ELSE FlatLoop(L, m, values, r + 1, 0, i)

\* faulty variant: values[i] is copied to linear slot i
MatrixFlat_Linear(L, nr, nc, values) ==
    [NumRows |-> nr, NumCols |-> nc, mStorage |-> [i \in 0..(nr * nc - 1) |-> values[i]]]

\* Matrix::Matrix(std::array<Real, NumRows * NumCols> const&)
MatrixFlat(L, nr, nc, values) == FlatLoop(L, Table(nr, nc), values, 0, 0, 0)

RECURSIVE FillRow(_, _, _, _)
\* for (; c < NumCols; ++c) mTable(r, c) = 0
FillRow(L, m, r, c) ==
    IF c < m.NumCols THEN FillRow(L, TableSet(L, m, r, c, 0), r, c + 1) ELSE m

RECURSIVE FillRows(_, _, _)
\* for (; r < NumRows; ++r) for (c = 0; c < NumCols; ++c) mTable(r, c) = 0
FillRows(L, m, r) ==
    IF r < m.NumRows THEN FillRows(L, FillRow(L, m, r, 0), r + 1) ELSE m

\* faulty variant: the ++r after filling the cut row is missing
RECURSIVE InitListCopy_NoRowAdvance(_, _, _, _, _, _, _)
InitListCopy_NoRowAdvance(L, m, values, numValues, r, c, i) ==
    IF r >= m.NumRows THEN [m |-> m, r |-> r]
    ELSE IF c < m.NumCols /\ i < numValues
         THEN InitListCopy_NoRowAdvance(L, TableSet(L, m, r, c, values[i]),
                                        values, numValues, r, c + 1, i + 1)
         ELSE IF c < m.NumCols
              THEN [m |-> FillRow(L, m, r, c), r |-> r]
              ELSE InitListCopy_NoRowAdvance(L, m, values, numValues, r + 1, 0, i)

RECURSIVE InitListCopy(_, _, _, _, _, _, _)
\* the first loop nest of the initializer-list constructor; iter is at
\* values.begin() + i throughout.  Yields the table and the r it exits with.
InitListCopy(L, m, values, numValues, r, c, i) ==
    IF r >= m.NumRows THEN [m |-> m, r |-> r]
    ELSE IF c < m.NumCols /\ i < numValues
         THEN InitListCopy(L, TableSet(L, m, r, c, values[i]),
                           values, numValues, r, c + 1, i + 1)
         ELSE IF c < m.NumCols
              THEN [m |-> FillRow(L, m, r, c), r |-> r + 1]
              ELSE InitListCopy(L, m, values, numValues, r + 1, 0, i)

\* Matrix::Matrix(std::initializer_list<Real>); values is indexed from 0
MatrixInitList(L, nr, nc, values) ==
    LET numValues == Cardinality(DOMAIN values)
        copied == InitListCopy(L, Table(nr, nc), values, numValues, 0, 0, 0)
    IN  FillRows(L, copied.m, copied.r)

\* Matrix::Matrix(int32_t r, int32_t c)
MatrixUnit(L, nr, nc, r, c) == MakeUnit(L, Table(nr, nc), r, c)

(* ---------------------- rows and columns ------------------------------ *)
\* faulty variant: the loop stops one column early
RECURSIVE SetRowLoop_OffByOne(_, _, _, _, _)
SetRowLoop_OffByOne(L, m, r, vec, c) ==
    IF c < m.NumCols - 1
    THEN SetRowLoop_OffByOne(L, TableSet(L, m, r, c, vec[c]), r, vec, c + 1)
    ELSE m

RECURSIVE SetRowLoop(_, _, _, _, _)
SetRowLoop(L, m, r, vec, c) ==
    IF c < m.NumCols THEN SetRowLoop(L, TableSet(L, m, r, c, vec[c]), r, vec, c + 1) ELSE m

\* Matrix::SetRow
SetRow(L, m, r, vec) == SetRowLoop(L, m, r, vec, 0)

RECURSIVE SetColLoop(_, _, _, _, _)
SetColLoop(L, m, c, vec, r) ==
    IF r < m.NumRows THEN SetColLoop(L, TableSet(L, m, r, c, vec[r]), c, vec, r + 1) ELSE m

\* Matrix::SetCol
SetCol(L, m, c, vec) == SetColLoop(L, m, c, vec, 0)

\* Matrix::GetRow
GetRow(L, m, r) == [c \in Cols(m) |-> TableGet(L, m, r, c)]

\* Matrix::GetCol
GetCol(L, m, c) == [r \in Rows(m) |-> TableGet(L, m, r, c)]

(* ------------------------- factories ---------------------------------- *)
\* Matrix::Zero
Zero(nr, nc) == MakeZero(MatrixDefault(nr, nc))

\* Matrix::Unit
Unit(L, nr, nc, r, c) == MakeUnit(L, MatrixDefault(nr, nc), r, c)

\* Matrix::Identity
Identity(L, nr, nc) == MakeIdentity(L, MatrixDefault(nr, nc))

(* ------------------------- comparisons -------------------------------- *)
\* mStorage is std::array<std::array<Real, NumCols>, NumRows> in the row-major
\* build and std::array<std::array<Real, NumRows>, NumCols> in the other
OuterCount(L, m) == IF L = ROW_MAJOR THEN m.NumRows ELSE m.NumCols
InnerCount(L, m) == IF L = ROW_MAJOR THEN m.NumCols ELSE m.NumRows

\* mStorage[k]
InnerArray(L, m, k) ==
    [j \in 0..(InnerCount(L, m) - 1) |-> m.mStorage[k * InnerCount(L, m) + j]]

RECURSIVE InnerLess(_, _, _, _)
\* std::lexicographical_compare over two std::array<Real, n>, from position i
InnerLess(x, y, i, n) ==
    IF i >= n THEN FALSE
    ELSE IF x[i] < y[i] THEN TRUE
    ELSE IF y[i] < x[i] THEN FALSE
    ELSE InnerLess(x, y, i + 1, n)

RECURSIVE StorageLess(_, _, _, _)
\* std::lexicographical_compare over the outer arrays, from position k
StorageLess(L, a, b, k) ==
    IF k >= OuterCount(L, a) THEN FALSE
    ELSE LET x == InnerArray(L, a, k)
             y == InnerArray(L, b, k)
             n == InnerCount(L, a)
         IN  IF InnerLess(x, y, 0, n) THEN TRUE
             ELSE IF InnerLess(y, x, 0, n) THEN FALSE
             ELSE StorageLess(L, a, b, k + 1)

\* std::equal over the outer arrays, the inner arrays compared with ==
StorageEqual(L, a, b) ==
    \A k \in 0..(OuterCount(L, a) - 1) :
        \A j \in 0..(InnerCount(L, a) - 1) :
            InnerArray(L, a, k)[j] = InnerArray(L, b, k)[j]

\* Matrix::operator==
OpEq(L, a, b) == StorageEqual(L, a, b)

\* Matrix::operator!=
OpNe(L, a, b) == ~StorageEqual(L, a, b)

\* Matrix::operator<
OpLt(L, a, b) == StorageLess(L, a, b, 0)

\* Matrix::operator<=
OpLe(L, a, b) == ~StorageLess(L, b, a, 0)

\* faulty variant: > taken as the negation of <
OpGt_NotLess(L, a, b) == ~StorageLess(L, a, b, 0)

\* Matrix::operator>
OpGt(L, a, b) == StorageLess(L, b, a, 0)

\* Matrix::operator>=
OpGe(L, a, b) == ~StorageLess(L, a, b, 0)

(* ----------------------- linear algebra ------------------------------- *)
\* operator+=
AddAssign(M0, M1) ==
    [M0 EXCEPT !.mStorage =
        [i \in LinearIndices(M0) |-> TableLinGet(M0, i) + TableLinGet(M1, i)]]

\* operator-=
SubAssign(M0, M1) ==
    [M0 EXCEPT !.mStorage =
        [i \in LinearIndices(M0) |-> TableLinGet(M0, i) - TableLinGet(M1, i)]]

\* operator*=
MulAssign(m, scalar) ==
    [m EXCEPT !.mStorage = [i \in LinearIndices(m) |-> TableLinGet(m, i) * scalar]]

\* ((Real)1) / scalar, for the scalars whose reciprocal is an integer
Reciprocal(scalar) == CHOOSE q \in {0 - 1, 1} : q * scalar = 1

\* faulty variant: a zero scalar leaves M as it is
DivAssign_IgnoresZero(m, scalar) ==
    IF scalar # 0
    THEN [m EXCEPT !.mStorage =
            [i \in LinearIndices(m) |-> TableLinGet(m, i) * Reciprocal(scalar)]]
    ELSE m

\* operator/=
DivAssign(m, scalar) ==
    IF scalar # 0
    THEN LET invScalar == Reciprocal(scalar)
         IN  [m EXCEPT !.mStorage =
                [i \in LinearIndices(m) |-> TableLinGet(m, i) * invScalar]]
    ELSE [m EXCEPT !.mStorage = [i \in LinearIndices(m) |-> 0]]

\* operator/ : a copy of M, divided in place
Div(m, scalar) == DivAssign(m, scalar)

\* std::fabs
fabs(x) == IF x < 0 THEN 0 - x ELSE x

RECURSIVE LInfinityNormLoop(_, _, _)
LInfinityNormLoop(m, i, maxAbsElement) ==
    IF i < NumElements(m)
    THEN LET absElement == fabs(TableLinGet(m, i))
         IN  LInfinityNormLoop(m, i + 1,
                IF absElement > maxAbsElement THEN absElement ELSE maxAbsElement)
    ELSE maxAbsElement

\* LInfinityNorm
LInfinityNorm(m) == LInfinityNormLoop(m, 1, TableLinGet(m, 0))

\* faulty variant: the buffer is read with rows and columns exchanged
ElimInput_Transposed(m) ==
    [i \in LinearIndices(m) |->
        TableLinGet(m, (i % m.NumCols) * m.NumCols + (i \div m.NumCols))]

\* the N*N values that GaussianElimination reads from &M[0], the second
\* argument of the call in Determinant and in Inverse
ElimInput(m) == [i \in LinearIndices(m) |-> TableLinGet(m, i)]

RECURSIVE TransposeLoop(_, _, _, _, _)
TransposeLoop(L, m, res, r, c) ==
    IF r >= m.NumRows THEN res
    ELSE IF c < m.NumCols
         THEN TransposeLoop(L, m, TableSet(L, res, c, r, TableGet(L, m, r, c)), r, c + 1)
         ELSE TransposeLoop(L, m, res, r + 1, 0)

\* faulty variant: the storage is kept and only the shape is exchanged
Transpose_Reinterpret(L, m) ==
    [NumRows |-> m.NumCols, NumCols |-> m.NumRows, mStorage |-> m.mStorage]

\* Transpose
Transpose(L, m) == TransposeLoop(L, m, MatrixDefault(m.NumCols, m.NumRows), 0, 0)

(* --------------------------- products --------------------------------- *)
RECURSIVE SumAB(_, _, _, _, _, _, _)
\* result(r, c) += A(r, i) * B(i, c), for i in increasing order
SumAB(L, a, b, r, c, i, sum) ==
    IF i < a.NumCols
    THEN SumAB(L, a, b, r, c, i + 1, sum + TableGet(L, a, r, i) * TableGet(L, b, i, c))
    ELSE sum

RECURSIVE MultiplyABLoop(_, _, _, _, _, _)
MultiplyABLoop(L, a, b, res, r, c) ==
    IF r >= res.NumRows THEN res
    ELSE IF c < res.NumCols
         THEN MultiplyABLoop(L, a, b, TableSet(L, res, r, c, SumAB(L, a, b, r, c, 0, 0)), r, c + 1)
         ELSE MultiplyABLoop(L, a, b, res, r + 1, 0)

\* MultiplyAB: A is NumRows x NumCommon, B is NumCommon x NumCols
MultiplyAB(L, a, b) ==
    MultiplyABLoop(L, a, b, MatrixDefault(a.NumRows, b.NumCols), 0, 0)

RECURSIVE SumABT(_, _, _, _, _, _, _)
\* result(r, c) += A(r, i) * B(c, i)
SumABT(L, a, b, r, c, i, sum) ==
    IF i < a.NumCols
    THEN SumABT(L, a, b, r, c, i + 1, sum + TableGet(L, a, r, i) * TableGet(L, b, c, i))
    ELSE sum

RECURSIVE MultiplyABTLoop(_, _, _, _, _, _)
MultiplyABTLoop(L, a, b, res, r, c) ==
    IF r >= res.NumRows THEN res
    ELSE IF c < res.NumCols
         THEN MultiplyABTLoop(L, a, b, TableSet(L, res, r, c, SumABT(L, a, b, r, c, 0, 0)), r, c + 1)
         ELSE MultiplyABTLoop(L, a, b, res, r + 1, 0)

\* MultiplyABT: A is NumRows x NumCommon, B is NumCols x NumCommon
MultiplyABT(L, a, b) ==
    MultiplyABTLoop(L, a, b, MatrixDefault(a.NumRows, b.NumRows), 0, 0)

RECURSIVE SumATB(_, _, _, _, _, _, _)
\* result(r, c) += A(i, r) * B(i, c)
SumATB(L, a, b, r, c, i, sum) ==
    IF i < a.NumRows
    THEN SumATB(L, a, b, r, c, i + 1, sum + TableGet(L, a, i, r) * TableGet(L, b, i, c))
    ELSE sum

RECURSIVE MultiplyATBLoop(_, _, _, _, _, _)
MultiplyATBLoop(L, a, b, res, r, c) ==
    IF r >= res.NumRows THEN res
    ELSE IF c < res.NumCols
         THEN MultiplyATBLoop(L, a, b, TableSet(L, res, r, c, SumATB(L, a, b, r, c, 0, 0)), r, c + 1)
         ELSE MultiplyATBLoop(L, a, b, res, r + 1, 0)

\* faulty variant: A is read as A(r, i)
MultiplyATB_NoTranspose(L, a, b) ==
    MultiplyABLoop(L, a, b, MatrixDefault(a.NumCols, b.NumCols), 0, 0)

\* MultiplyATB: A is NumCommon x NumRows, B is NumCommon x NumCols
MultiplyATB(L, a, b) ==
    MultiplyATBLoop(L, a, b, MatrixDefault(a.NumCols, b.NumCols), 0, 0)

RECURSIVE SumATBT(_, _, _, _, _, _, _)
\* result(r, c) += A(i, r) * B(c, i)
SumATBT(L, a, b, r, c, i, sum) ==
    IF i < a.NumRows
    THEN SumATBT(L, a, b, r, c, i + 1, sum + TableGet(L, a, i, r) * TableGet(L, b, c, i))
    ELSE sum

RECURSIVE MultiplyATBTLoop(_, _, _, _, _, _)
MultiplyATBTLoop(L, a, b, res, r, c) ==
    IF r >= res.NumRows THEN res
    ELSE IF c < res.NumCols
         THEN MultiplyATBTLoop(L, a, b, TableSet(L, res, r, c, SumATBT(L, a, b, r, c, 0, 0)), r, c + 1)
         ELSE MultiplyATBTLoop(L, a, b, res, r + 1, 0)

\* MultiplyATBT: A is NumCommon x NumRows, B is NumCols x NumCommon
MultiplyATBT(L, a, b) ==
    MultiplyATBTLoop(L, a, b, MatrixDefault(a.NumCols, b.NumRows), 0, 0)

(* ------------------- homogeneous lift and project --------------------- *)
RECURSIVE HLiftLoop(_, _, _, _, _)
\* for r, c < N: result(r, c) = M(r, c)
HLiftLoop(L, m, res, r, c) ==
    IF r >= m.NumRows THEN res
    ELSE IF c < m.NumCols
         THEN HLiftLoop(L, m, TableSet(L, res, r, c, TableGet(L, m, r, c)), r, c + 1)
         ELSE HLiftLoop(L, m, res, r + 1, 0)

\* faulty variant: the result is not made the identity first
HLift_NoIdentity(L, m) ==
    HLiftLoop(L, m, MatrixDefault(m.NumRows + 1, m.NumCols + 1), 0, 0)

\* HLift: M is N x N, the result (N+1) x (N+1)
HLift(L, m) ==
    HLiftLoop(L, m, MakeIdentity(L, MatrixDefault(m.NumRows + 1, m.NumCols + 1)), 0, 0)

RECURSIVE HProjectLoop(_, _, _, _, _)
\* for r, c < N - 1: result(r, c) = M(r, c)
HProjectLoop(L, m, res, r, c) ==
    IF r >= m.NumRows - 1 THEN res
    ELSE IF c < m.NumCols - 1
         THEN HProjectLoop(L, m, TableSet(L, res, r, c, TableGet(L, m, r, c)), r, c + 1)
         ELSE HProjectLoop(L, m, res, r + 1, 0)

\* HProject: M is N x N with N >= 2, the result (N-1) x (N-1)
HProject(L, m) ==
    HProjectLoop(L, m, MatrixDefault(m.NumRows - 1, m.NumCols - 1), 0, 0)

(* ====================== the matrix object ============================= *)
\* last: the function that ran last and the arguments the properties need
Call(op) == [op |-> op, r |-> 0, c |-> 0, scalar |-> 0, values |-> <<>>]

NoMatrix == [L \in Layouts |-> Table(0, 0)]
NoResult == [L \in Layouts |-> 0]

\* std::array / std::initializer_list / Vector contents, indexed from 0
Arrays(n, S) == [0..(n - 1) -> S]
InitLists == UNION {Arrays(n, CtorVal) : n \in 0..(NumRows * NumCols + MaxExtra)}
UnitRows == (0 - 1)..NumRows
UnitCols == (0 - 1)..NumCols
Scalars == Val
DivScalars == {0 - 1, 0, 1}

\* the shape of the matrix type in use (the same in both builds)
Shape == M[ROW_MAJOR]

InBounds(m) == \A i \in DOMAIN m.mStorage : m.mStorage[i] \in Val

\* the constructor body has run, and the elements are within the bound
Usable == last.op # "Table" /\ \A L \in Layouts : InBounds(M[L])

\* the matrices that += and -= take: the factories' results
Operands ==
    {[L \in Layouts |-> Unit(L, NumRows, NumCols, r, c)] : r \in UnitRows, c \in UnitCols}
    \cup {[L \in Layouts |-> Identity(L, NumRows, NumCols)]}

\* the member mTable has been constructed, the constructor body has not run
Init ==
    /\ M = [L \in Layouts |-> Table(NumRows, NumCols)]
    /\ A = NoMatrix
    /\ B = NoMatrix
    /\ last = Call("Table")
    /\ result = NoResult

CtorDefault ==
    /\ last.op = "Table"
    /\ M' = [L \in Layouts |-> MatrixDefault(NumRows, NumCols)]
    /\ last' = Call("Matrix()")
    /\ UNCHANGED <<A, B, result>>

CtorFlat ==
    /\ last.op = "Table"
    /\ \E values \in Arrays(NumRows * NumCols, CtorVal) :
        /\ M' = [L \in Layouts |-> MatrixFlat(L, NumRows, NumCols, values)]
        /\ last' = [Call("Matrix(array)") EXCEPT !.values = values]
    /\ UNCHANGED <<A, B, result>>

CtorInitList ==
    /\ last.op = "Table"
    /\ \E values \in InitLists :
        /\ M' = [L \in Layouts |-> MatrixInitList(L, NumRows, NumCols, values)]
        /\ last' = [Call("Matrix(initializer_list)") EXCEPT !.values = values]
    /\ UNCHANGED <<A, B, result>>

CtorUnit ==
    /\ last.op = "Table"
    /\ \E r \in UnitRows, c \in UnitCols :
        /\ M' = [L \in Layouts |-> MatrixUnit(L, NumRows, NumCols, r, c)]
        /\ last' = [Call("Matrix(r,c)") EXCEPT !.r = r, !.c = c]
    /\ UNCHANGED <<A, B, result>>

\* M(r, c) = v
DoWrite ==
    /\ Usable
    /\ \E r \in Rows(Shape), c \in Cols(Shape), v \in Val :
        M' = [L \in Layouts |-> TableSet(L, M[L], r, c, v)]
    /\ last' = Call("operator()")
    /\ result' = NoResult
    /\ UNCHANGED <<A, B>>

DoSetRow ==
    /\ Usable
    /\ \E r \in Rows(Shape), vec \in Arrays(Shape.NumCols, Val) :
        /\ M' = [L \in Layouts |-> SetRow(L, M[L], r, vec)]
        /\ last' = [Call("SetRow") EXCEPT !.r = r, !.values = vec]
    /\ result' = NoResult
    /\ UNCHANGED <<A, B>>

DoSetCol ==
    /\ Usable
    /\ \E c \in Cols(Shape), vec \in Arrays(Shape.NumRows, Val) :
        /\ M' = [L \in Layouts |-> SetCol(L, M[L], c, vec)]
        /\ last' = [Call("SetCol") EXCEPT !.c = c, !.values = vec]
    /\ result' = NoResult
    /\ UNCHANGED <<A, B>>

DoMakeZero ==
    /\ Usable
    /\ M' = [L \in Layouts |-> MakeZero(M[L])]
    /\ last' = Call("MakeZero")
    /\ result' = NoResult
    /\ UNCHANGED <<A, B>>

DoMakeUnit ==
    /\ Usable
    /\ \E r \in UnitRows, c \in UnitCols :
        /\ M' = [L \in Layouts |-> MakeUnit(L, M[L], r, c)]
        /\ last' = [Call("MakeUnit") EXCEPT !.r = r, !.c = c]
    /\ result' = NoResult
    /\ UNCHANGED <<A, B>>

DoMakeIdentity ==
    /\ Usable
    /\ M' = [L \in Layouts |-> MakeIdentity(L, M[L])]
    /\ last' = Call("MakeIdentity")
    /\ result' = NoResult
    /\ UNCHANGED <<A, B>>

DoAddAssign ==
    /\ Usable
    /\ \E M1 \in Operands :
        /\ M' = [L \in Layouts |-> AddAssign(M[L], M1[L])]
        /\ \A L \in Layouts : InBounds(M'[L])
    /\ last' = Call("operator+=")
    /\ result' = NoResult
    /\ UNCHANGED <<A, B>>

DoSubAssign ==
    /\ Usable
    /\ \E M1 \in Operands :
        /\ M' = [L \in Layouts |-> SubAssign(M[L], M1[L])]
        /\ \A L \in Layouts : InBounds(M'[L])
    /\ last' = Call("operator-=")
    /\ result' = NoResult
    /\ UNCHANGED <<A, B>>

DoMulAssign ==
    /\ Usable
    /\ \E scalar \in Scalars :
        /\ M' = [L \in Layouts |-> MulAssign(M[L], scalar)]
        /\ \A L \in Layouts : InBounds(M'[L])
    /\ last' = Call("operator*=")
    /\ result' = NoResult
    /\ UNCHANGED <<A, B>>

DoDivAssign ==
    /\ Usable
    /\ \E scalar \in DivScalars :
        /\ M' = [L \in Layouts |-> DivAssign(M[L], scalar)]
        /\ last' = [Call("operator/=") EXCEPT !.scalar = scalar]
    /\ result' = NoResult
    /\ UNCHANGED <<A, B>>

Next ==
    \/ CtorDefault \/ CtorFlat \/ CtorInitList \/ CtorUnit
    \/ DoWrite \/ DoSetRow \/ DoSetCol
    \/ DoMakeZero \/ DoMakeUnit \/ DoMakeIdentity
    \/ DoAddAssign \/ DoSubAssign \/ DoMulAssign \/ DoDivAssign

Spec == Init /\ [][Next]_vars

(* ============== single calls on an arbitrary matrix =================== *)
\* a function is applied to the matrix that was drawn
Fresh == last.op = "input"

\* any NumRows x NumCols or N x N matrix, or the table before the
\* constructor body runs
InitFn ==
    /\ \/ /\ M = [L \in Layouts |-> Table(NumRows, NumCols)]
          /\ last = Call("Table")
       \/ /\ \E values \in Arrays(NumRows * NumCols, Val) :
                M = [L \in Layouts |-> MatrixFlat(L, NumRows, NumCols, values)]
          /\ last = Call("input")
       \/ /\ \E values \in Arrays(N * N, Val) :
                M = [L \in Layouts |-> MatrixFlat(L, N, N, values)]
          /\ last = Call("input")
    /\ A = NoMatrix
    /\ B = NoMatrix
    /\ result = NoResult

\* M / scalar
DoDiv ==
    /\ Fresh
    /\ \E scalar \in DivScalars :
        /\ result' = [L \in Layouts |-> Div(M[L], scalar)]
        /\ last' = [Call("operator/") EXCEPT !.scalar = scalar]
    /\ UNCHANGED <<M, A, B>>

\* Matrix::Unit(r, c)
DoUnit ==
    /\ Fresh
    /\ \E r \in UnitRows, c \in UnitCols :
        /\ result' = [L \in Layouts |-> Unit(L, Shape.NumRows, Shape.NumCols, r, c)]
        /\ last' = [Call("Unit") EXCEPT !.r = r, !.c = c]
    /\ UNCHANGED <<M, A, B>>

DoLInfinityNorm ==
    /\ Fresh
    /\ result' = [L \in Layouts |-> LInfinityNorm(M[L])]
    /\ last' = Call("LInfinityNorm")
    /\ UNCHANGED <<M, A, B>>

DoTranspose ==
    /\ Fresh
    /\ result' = [L \in Layouts |-> Transpose(L, M[L])]
    /\ last' = Call("Transpose")
    /\ UNCHANGED <<M, A, B>>

\* Determinant(M): result is the call GaussianElimination<Real>()(N, &M[0], ...)
DoDeterminant ==
    /\ Fresh
    /\ Shape.NumRows = Shape.NumCols
    /\ result' = [L \in Layouts |-> [N |-> M[L].NumRows, M |-> ElimInput(M[L])]]
    /\ last' = Call("Determinant")
    /\ UNCHANGED <<M, A, B>>

\* Inverse(M): result is the call GaussianElimination<Real>()(N, &M[0], &invM[0], ...)
DoInverse ==
    /\ Fresh
    /\ Shape.NumRows = Shape.NumCols
    /\ result' = [L \in Layouts |-> [N |-> M[L].NumRows, M |-> ElimInput(M[L])]]
    /\ last' = Call("Inverse")
    /\ UNCHANGED <<M, A, B>>

\* Matrix::Identity()
DoIdentity ==
    /\ Fresh
    /\ result' = [L \in Layouts |-> Identity(L, Shape.NumRows, Shape.NumCols)]
    /\ last' = Call("Identity")
    /\ UNCHANGED <<M, A, B>>

\* HLift(M)
DoHLift ==
    /\ Fresh
    /\ Shape.NumRows = Shape.NumCols
    /\ result' = [L \in Layouts |-> HLift(L, M[L])]
    /\ last' = Call("HLift")
    /\ UNCHANGED <<M, A, B>>

\* HProject(M); static_assert(N >= 2)
DoHProject ==
    /\ Fresh
    /\ Shape.NumRows = Shape.NumCols
    /\ Shape.NumRows >= 2
    /\ result' = [L \in Layouts |-> HProject(L, M[L])]
    /\ last' = Call("HProject")
    /\ UNCHANGED <<M, A, B>>

NextFn ==
    \/ CtorUnit \/ DoMakeUnit \/ DoUnit
    \/ DoDivAssign \/ DoDiv
    \/ DoLInfinityNorm \/ DoTranspose
    \/ DoDeterminant \/ DoInverse
    \/ DoHLift \/ DoHProject
    \/ DoMakeIdentity \/ DoIdentity

SpecFn == InitFn /\ [][NextFn]_vars

(* ========================= comparisons ================================ *)
\* three N x N matrices: A and B are compared, M is the third of a chain
InitCmp ==
    /\ \E va \in Arrays(N * N, OperandVal) :
        A = [L \in Layouts |-> MatrixFlat(L, N, N, va)]
    /\ \E vb \in Arrays(N * N, OperandVal) :
        B = [L \in Layouts |-> MatrixFlat(L, N, N, vb)]
    /\ \E vm \in Arrays(N * N, OperandVal) :
        M = [L \in Layouts |-> MatrixFlat(L, N, N, vm)]
    /\ last = Call("input")
    /\ result = NoResult

\* A == B, A != B, A < B, A <= B, A > B, A >= B, and B < M, A < M
DoCompare ==
    /\ Fresh
    /\ result' = [L \in Layouts |->
                    [eq |-> OpEq(L, A[L], B[L]), ne |-> OpNe(L, A[L], B[L]),
                     lt |-> OpLt(L, A[L], B[L]), le |-> OpLe(L, A[L], B[L]),
                     gt |-> OpGt(L, A[L], B[L]), ge |-> OpGe(L, A[L], B[L]),
                     ltBM |-> OpLt(L, B[L], M[L]), ltAM |-> OpLt(L, A[L], M[L])]]
    /\ last' = Call("compare")
    /\ UNCHANGED <<M, A, B>>

NextCmp == DoCompare

SpecCmp == InitCmp /\ [][NextCmp]_vars

(* ========================== products ================================== *)
\* A is NumRows x NumCommon, B is NumCommon x NumCols
InitProd ==
    /\ \E va \in Arrays(NumRows * NumCommon, OperandVal) :
        A = [L \in Layouts |-> MatrixFlat(L, NumRows, NumCommon, va)]
    /\ \E vb \in Arrays(NumCommon * NumCols, OperandVal) :
        B = [L \in Layouts |-> MatrixFlat(L, NumCommon, NumCols, vb)]
    /\ M = NoMatrix
    /\ last = Call("input")
    /\ result = NoResult

\* MultiplyAB(A, B)
DoMultiplyAB ==
    /\ Fresh
    /\ result' = [L \in Layouts |-> MultiplyAB(L, A[L], B[L])]
    /\ last' = Call("MultiplyAB")
    /\ UNCHANGED <<M, A, B>>

\* MultiplyABT(A, Transpose(B))
DoMultiplyABT ==
    /\ Fresh
    /\ result' = [L \in Layouts |-> MultiplyABT(L, A[L], Transpose(L, B[L]))]
    /\ last' = Call("MultiplyABT")
    /\ UNCHANGED <<M, A, B>>

\* MultiplyATB(Transpose(A), B)
DoMultiplyATB ==
    /\ Fresh
    /\ result' = [L \in Layouts |-> MultiplyATB(L, Transpose(L, A[L]), B[L])]
    /\ last' = Call("MultiplyATB")
    /\ UNCHANGED <<M, A, B>>

\* MultiplyATBT(Transpose(A), Transpose(B))
DoMultiplyATBT ==
    /\ Fresh
    /\ result' = [L \in Layouts |->
                    MultiplyATBT(L, Transpose(L, A[L]), Transpose(L, B[L]))]
    /\ last' = Call("MultiplyATBT")
    /\ UNCHANGED <<M, A, B>>

NextProd == DoMultiplyAB \/ DoMultiplyABT \/ DoMultiplyATB \/ DoMultiplyATBT

SpecProd == InitProd /\ [][NextProd]_vars

(* ======================= rows and columns ============================= *)
\* any NumRows x NumCols matrix
InitRC ==
    /\ \E values \in Arrays(NumRows * NumCols, Val) :
        M = [L \in Layouts |-> MatrixFlat(L, NumRows, NumCols, values)]
    /\ last = Call("input")
    /\ A = NoMatrix
    /\ B = NoMatrix
    /\ result = NoResult

\* M.GetRow(r)
DoGetRow ==
    /\ Fresh
    /\ \E r \in Rows(Shape) :
        /\ result' = [L \in Layouts |-> GetRow(L, M[L], r)]
        /\ last' = [Call("GetRow") EXCEPT !.r = r]
    /\ UNCHANGED <<M, A, B>>

\* M.GetCol(c)
DoGetCol ==
    /\ Fresh
    /\ \E c \in Cols(Shape) :
        /\ result' = [L \in Layouts |-> GetCol(L, M[L], c)]
        /\ last' = [Call("GetCol") EXCEPT !.c = c]
    /\ UNCHANGED <<M, A, B>>

\* M.SetRow(r, vec) on the matrix that was drawn
SetRowOnce == Fresh /\ DoSetRow

\* M.SetCol(c, vec) on the matrix that was drawn
SetColOnce == Fresh /\ DoSetCol

NextRC == SetRowOnce \/ SetColOnce \/ DoGetRow \/ DoGetCol

SpecRC == InitRC /\ [][NextRC]_vars

(* ============================ properties ============================== *)
ValidRows == Rows(Shape)
ValidCols == Cols(Shape)

\* the physical sequences of the two builds differ
LayoutsDiffer(x) == x[ROW_MAJOR].mStorage # x[COL_MAJOR].mStorage

\* C1: after every step of any sequence of constructions and in-place
\* operations, M(r,c) reads the same value in the row-major and in the
\* column-major build, for every valid (r,c).
C1_LayoutIndependent ==
    \A r \in ValidRows, c \in ValidCols :
        TableGet(ROW_MAJOR, M[ROW_MAJOR], r, c) = TableGet(COL_MAJOR, M[COL_MAJOR], r, c)

C1_Witness ==
    /\ last.op = "operator+="
    /\ LayoutsDiffer(M)
    /\ TableGet(ROW_MAJOR, M[ROW_MAJOR], 0, 1) # TableGet(ROW_MAJOR, M[ROW_MAJOR], 1, 0)

\* C2: a matrix constructed from a flat array of NumRows*NumCols values
\* reads values[r*NumCols + c] at (r,c), in either build.
C2_FlatRoundTrip ==
    last.op = "Matrix(array)" =>
        \A L \in Layouts : \A r \in ValidRows, c \in ValidCols :
            TableGet(L, M[L], r, c) = last.values[r * NumCols + c]

C2_Witness ==
    /\ last.op = "Matrix(array)"
    /\ LayoutsDiffer(M)
    /\ last.values[1] # last.values[NumCols]

\* C3: a matrix constructed from an initializer list of n values reads the
\* value at position r*NumCols + c when that position is below n and 0
\* otherwise; values at positions from NumRows*NumCols on are ignored.  A
\* 2x3 matrix built from [1,2] has rows [1,2,0] and [0,0,0].
C3_InitList ==
    last.op = "Matrix(initializer_list)" =>
        LET n == Cardinality(DOMAIN last.values)
        IN  \A L \in Layouts :
                /\ DOMAIN M[L].mStorage = LinearIndices(M[L])
                /\ \A r \in ValidRows, c \in ValidCols :
                    TableGet(L, M[L], r, c) =
                        IF r * NumCols + c < n THEN last.values[r * NumCols + c] ELSE 0
                /\ last.values = [i \in 0..1 |-> i + 1] =>
                    /\ GetRow(L, M[L], 0) = [c \in 0..2 |-> IF c < 2 THEN c + 1 ELSE 0]
                    /\ GetRow(L, M[L], 1) = [c \in 0..2 |-> 0]

C3_Witness ==
    /\ last.op = "Matrix(initializer_list)"
    /\ last.values = [i \in 0..1 |-> i + 1]
    /\ \A L \in Layouts : GetRow(L, M[L], 0) = [c \in 0..2 |-> IF c < 2 THEN c + 1 ELSE 0]

\* m is 0 everywhere except for a 1 at (r,c) when (r,c) is a valid position,
\* and no slot outside the table has been written
IsUnitMatrix(L, m, r, c) ==
    /\ DOMAIN m.mStorage = LinearIndices(m)
    /\ \A rr \in Rows(m), cc \in Cols(m) :
        TableGet(L, m, rr, cc) = IF rr = r /\ cc = c THEN 1 ELSE 0

\* C4: for any integers r, c and any prior contents, MakeUnit(r,c), Unit(r,c)
\* and the (r,c) constructor give the matrix with a single 1 at (r,c) when
\* (r,c) is valid and the zero matrix otherwise, writing no slot out of range.
C4_UnitNeverFails ==
    /\ last.op \in {"MakeUnit", "Matrix(r,c)"} =>
        \A L \in Layouts : IsUnitMatrix(L, M[L], last.r, last.c)
    /\ last.op = "Unit" =>
        \A L \in Layouts :
            /\ IsUnitMatrix(L, result[L], last.r, last.c)
            /\ result[L].NumRows = M[L].NumRows
            /\ result[L].NumCols = M[L].NumCols

C4_Witness ==
    /\ last.op = "MakeUnit"
    /\ last.r = 0
    /\ last.c = Shape.NumCols
    /\ \A L \in Layouts : \A i \in LinearIndices(M[L]) : M[L].mStorage[i] = 0

\* C5: M /= 0 leaves every element of M equal to 0 and M / 0 is the zero
\* matrix of M's shape, whatever M held; for a nonzero scalar every element
\* is the old element times the reciprocal, so none is forced to zero.
C5_DivStep ==
    /\ last'.op = "operator/=" =>
        \A L \in Layouts : \A i \in LinearIndices(M[L]) :
            IF last'.scalar = 0
            THEN M'[L].mStorage[i] = 0
            ELSE M'[L].mStorage[i] * last'.scalar = M[L].mStorage[i]
    /\ last'.op = "operator/" =>
        \A L \in Layouts :
            /\ result'[L].NumRows = M[L].NumRows
            /\ result'[L].NumCols = M[L].NumCols
            /\ \A i \in LinearIndices(M[L]) :
                IF last'.scalar = 0
                THEN result'[L].mStorage[i] = 0
                ELSE result'[L].mStorage[i] * last'.scalar = M[L].mStorage[i]

\* C5: every step satisfies the division contract above
C5_DivByZero == [][C5_DivStep]_vars

C5_Witness ==
    /\ last.op = "operator/"
    /\ last.scalar = 0
    /\ \E i \in LinearIndices(Shape) : Shape.mStorage[i] # 0
    /\ \A L \in Layouts : \A i \in LinearIndices(M[L]) : result[L].mStorage[i] = 0

\* the largest fabs of an element
MaxAbsElement(m) ==
    CHOOSE x \in {fabs(m.mStorage[i]) : i \in LinearIndices(m)} :
        \A i \in LinearIndices(m) : x >= fabs(m.mStorage[i])

\* C6: LInfinityNorm(M) is the maximum of |M[i]| over all linear indices i,
\* and so is never negative.
C6_LInfinityNormIsMaxAbs ==
    last.op = "LInfinityNorm" =>
        \A L \in Layouts : result[L] = MaxAbsElement(M[L]) /\ result[L] >= 0

C9_TransposeInvolution ==
    last.op = "Transpose" =>
        \A L \in Layouts :
            /\ result[L].NumRows = M[L].NumCols
            /\ result[L].NumCols = M[L].NumRows
            /\ DOMAIN result[L].mStorage = LinearIndices(M[L])
            /\ \A r \in ValidRows, c \in ValidCols :
                TableGet(L, result[L], c, r) = TableGet(L, M[L], r, c)
            /\ OpEq(L, Transpose(L, result[L]), M[L])

C9_Witness ==
    /\ last.op = "Transpose"
    /\ Shape.NumRows # Shape.NumCols
    /\ TableGet(ROW_MAJOR, M[ROW_MAJOR], 0, 1) # TableGet(ROW_MAJOR, M[ROW_MAJOR], 1, 0)
    /\ TableGet(ROW_MAJOR, result[ROW_MAJOR], 2, 1) # 0

\* a is before b in the lexicographic order of the physical sequences: at
\* the first linear index where they differ, a holds the smaller value
LexBefore(a, b) ==
    \E i \in LinearIndices(a) :
        /\ a.mStorage[i] < b.mStorage[i]
        /\ \A j \in 0..(i - 1) : a.mStorage[j] = b.mStorage[j]

\* C8: the comparison operators are the lexicographic order over the
\* physical linear storage; exactly one of A < B, A == B, A > B holds; <=,
\* >= and != are derived as usual; < is transitive.
C8_TotalOrder ==
    last.op = "compare" =>
        \A L \in Layouts :
            LET res == result[L]
            IN  /\ res.lt <=> LexBefore(A[L], B[L])
                /\ res.eq <=> (A[L].mStorage = B[L].mStorage)
                /\ res.gt <=> LexBefore(B[L], A[L])
                /\ (res.lt /\ ~res.eq /\ ~res.gt)
                    \/ (~res.lt /\ res.eq /\ ~res.gt)
                    \/ (~res.lt /\ ~res.eq /\ res.gt)
                /\ res.le <=> (res.lt \/ res.eq)
                /\ res.ge <=> (res.gt \/ res.eq)
                /\ res.ne <=> ~res.eq
                /\ (res.lt /\ res.ltBM) => res.ltAM

\* the same (r,c) contents compare differently in the two builds
C8_Witness ==
    /\ last.op = "compare"
    /\ \A r \in Rows(A[ROW_MAJOR]), c \in Cols(A[ROW_MAJOR]) :
        /\ TableGet(ROW_MAJOR, A[ROW_MAJOR], r, c) = TableGet(COL_MAJOR, A[COL_MAJOR], r, c)
        /\ TableGet(ROW_MAJOR, B[ROW_MAJOR], r, c) = TableGet(COL_MAJOR, B[COL_MAJOR], r, c)
    /\ result[ROW_MAJOR].lt
    /\ ~result[COL_MAJOR].lt
    /\ result[ROW_MAJOR].ltBM
    /\ result[ROW_MAJOR].ltAM

RECURSIVE SumOver(_, _, _, _, _, _)
\* the sum of A(r,i)*B(i,c) over i in 0..k-1
SumOver(L, a, b, r, c, k) ==
    IF k = 0 THEN 0
    ELSE SumOver(L, a, b, r, c, k - 1)
            + TableGet(L, a, r, k - 1) * TableGet(L, b, k - 1, c)

\* C10: MultiplyAB(A,B)(r,c) is the sum over i of A(r,i)*B(i,c), and
\* MultiplyABT(A, Transpose(B)), MultiplyATB(Transpose(A), B) and
\* MultiplyATBT(Transpose(A), Transpose(B)) all == MultiplyAB(A,B).
C10_ProductVariantsAgree ==
    \A L \in Layouts :
        /\ last.op = "MultiplyAB" =>
            /\ result[L].NumRows = A[L].NumRows
            /\ result[L].NumCols = B[L].NumCols
            /\ DOMAIN result[L].mStorage = LinearIndices(result[L])
            /\ \A r \in Rows(A[L]), c \in Cols(B[L]) :
                TableGet(L, result[L], r, c) = SumOver(L, A[L], B[L], r, c, NumCommon)
        /\ last.op \in {"MultiplyABT", "MultiplyATB", "MultiplyATBT"} =>
            /\ result[L].NumRows = A[L].NumRows
            /\ result[L].NumCols = B[L].NumCols
            /\ OpEq(L, result[L], MultiplyAB(L, A[L], B[L]))

C10_Witness ==
    /\ last.op = "MultiplyATB"
    /\ TableGet(ROW_MAJOR, A[ROW_MAJOR], 0, 1) # TableGet(ROW_MAJOR, A[ROW_MAJOR], 1, 0)
    /\ TableGet(ROW_MAJOR, result[ROW_MAJOR], 1, 2) = NumCommon
    /\ TableGet(ROW_MAJOR, result[ROW_MAJOR], 0, 0) = 0
    /\ LayoutsDiffer(result)

\* C11: HLift(M) is the (N+1) x (N+1) matrix whose upper N x N block is M and
\* whose last row and last column are 0 except for a 1 at (N,N);
\* HProject(HLift(M)) == M; HProject(M) is the upper (N-1) x (N-1) block.
C11_LiftProjectRoundTrip ==
    \A L \in Layouts :
        /\ last.op = "HLift" =>
            LET n == M[L].NumRows
            IN  /\ result[L].NumRows = n + 1
                /\ result[L].NumCols = n + 1
                /\ DOMAIN result[L].mStorage = LinearIndices(result[L])
                /\ \A r \in 0..n, c \in 0..n :
                    TableGet(L, result[L], r, c) =
                        IF r < n /\ c < n THEN TableGet(L, M[L], r, c)
                        ELSE IF r = n /\ c = n THEN 1 ELSE 0
                /\ OpEq(L, HProject(L, result[L]), M[L])
        /\ last.op = "HProject" =>
            /\ result[L].NumRows = M[L].NumRows - 1
            /\ result[L].NumCols = M[L].NumCols - 1
            /\ DOMAIN result[L].mStorage = LinearIndices(result[L])
            /\ \A r \in Rows(result[L]), c \in Cols(result[L]) :
                TableGet(L, result[L], r, c) = TableGet(L, M[L], r, c)

C11_Witness ==
    /\ last.op = "HLift"
    /\ TableGet(ROW_MAJOR, M[ROW_MAJOR], 0, 1) # TableGet(ROW_MAJOR, M[ROW_MAJOR], 1, 0)
    /\ TableGet(ROW_MAJOR, M[ROW_MAJOR], 1, 1) = 0 - 1
    /\ LayoutsDiffer(result)
    /\ \A L \in Layouts : OpEq(L, HProject(L, result[L]), M[L])

\* m has a 1 at (i,i) for 0 <= i < min(NumRows, NumCols), which are exactly
\* min(NumRows, NumCols) entries, and 0 everywhere else
IsIdentityMatrix(L, m) ==
    LET minDim == IF m.NumRows <= m.NumCols THEN m.NumRows ELSE m.NumCols
        ones == {rc \in Rows(m) \X Cols(m) : TableGet(L, m, rc[1], rc[2]) = 1}
    IN  /\ DOMAIN m.mStorage = LinearIndices(m)
        /\ ones = {<<i, i>> : i \in 0..(minDim - 1)}
        /\ Cardinality(ones) = minDim
        /\ \A rc \in (Rows(m) \X Cols(m)) \ ones : TableGet(L, m, rc[1], rc[2]) = 0

\* C12: after MakeIdentity, whatever the matrix held and square or not,
\* exactly the min(NumRows, NumCols) entries (i,i) are 1 and every other
\* entry is 0; Identity() returns that same matrix.
C12_IdentityNonSquare ==
    \A L \in Layouts :
        /\ last.op = "MakeIdentity" => IsIdentityMatrix(L, M[L])
        /\ last.op = "Identity" =>
            /\ result[L].NumRows = M[L].NumRows
            /\ result[L].NumCols = M[L].NumCols
            /\ IsIdentityMatrix(L, result[L])
            /\ OpEq(L, result[L], MakeIdentity(L, M[L]))

C12_Witness ==
    /\ last.op = "MakeIdentity"
    /\ Shape.NumRows < Shape.NumCols
    /\ \A L \in Layouts :
        /\ TableGet(L, M[L], 0, 0) = 1
        /\ TableGet(L, M[L], 1, 1) = 1
        /\ TableGet(L, M[L], 1, 2) = 0

\* C13, one step: SetRow(r, v) makes GetRow(r) == v and leaves every element
\* of the other rows as it was; SetCol(c, v) makes GetCol(c) == v and leaves
\* every element of the other columns as it was; GetRow and GetCol return the
\* row or column and leave the matrix as it was.  In both builds.
C13_Step ==
    \A L \in Layouts :
        /\ last'.op = "SetRow" =>
            /\ GetRow(L, M'[L], last'.r) = last'.values
            /\ DOMAIN M'[L].mStorage = LinearIndices(M[L])
            /\ \A r \in Rows(M[L]) \ {last'.r}, c \in Cols(M[L]) :
                TableGet(L, M'[L], r, c) = TableGet(L, M[L], r, c)
        /\ last'.op = "SetCol" =>
            /\ GetCol(L, M'[L], last'.c) = last'.values
            /\ DOMAIN M'[L].mStorage = LinearIndices(M[L])
            /\ \A r \in Rows(M[L]), c \in Cols(M[L]) \ {last'.c} :
                TableGet(L, M'[L], r, c) = TableGet(L, M[L], r, c)
        /\ last'.op = "GetRow" =>
            /\ M' = M
            /\ \A c \in Cols(M[L]) : result'[L][c] = TableGet(L, M[L], last'.r, c)
        /\ last'.op = "GetCol" =>
            /\ M' = M
            /\ \A r \in Rows(M[L]) : result'[L][r] = TableGet(L, M[L], r, last'.c)

\* C13: every step sets rows and columns exactly and leaves the rest alone
C13_RowColFrame == [][C13_Step]_vars

C13_Witness ==
    /\ last.op = "SetRow"
    /\ last.r = 1
    /\ last.values[0] # last.values[NumCols - 1]
    /\ \A L \in Layouts :
        /\ GetRow(L, M[L], 1) = last.values
        /\ TableGet(L, M[L], 0, 0) # 0
        /\ TableGet(L, M[L], 0, NumCols - 1) # TableGet(L, M[L], 1, NumCols - 1)

====
